---- MODULE Spec2Model ----
(***************************************************************************)
(* Model of the OMaa chat product: the Conversation Store and send         *)
(* orchestration of AIService (src/ai-service.js), the remote-verification *)
(* Access Gate (src/subscription-service.js) with the chat page that       *)
(* drives both (src/unnamed/part_003), and the local trial-counter Access  *)
(* Gate (src/unnamed/part_002, first class).                               *)
(***************************************************************************)
EXTENDS Integers, Sequences, FiniteSets, TLC

VARIABLES
    conversationHistory,  \* AIService.conversationHistory: Seq of [role, content]
    storedHistory,        \* localStorage[STORAGE_KEYS.CHAT_HISTORY]: an entry, set or not
    sends,                \* the AIService.sendMessage invocations, one per slot
    nextContent,          \* the next fresh message text (texts are numbered)
    appendLog,            \* history variable: every message appended since the last clear
    rolledBack,           \* history variable: a pop happened since the last clear
    sessionId,            \* SubscriptionService.sessionId
    accessData,           \* SubscriptionService.accessData
    initialized,          \* SubscriptionService.initialized
    storedSessionId,      \* localStorage[SUBSCRIPTION_CONFIG.STORAGE_KEYS.SESSION_ID]
    url,                  \* window.location.search: the session_id and status parameters
    rechecks,             \* verifyAccess() calls, other than the page load's, awaiting their fetch
    pagePc,               \* the chat page's DOMContentLoaded handler: start, verifying, ready
    chatInputDisabled,    \* chatInput.disabled
    sendBtnDisabled,      \* sendBtn.disabled
    enrollModalShown,     \* enrollModal.style.display = 'flex'
    paywallShown,         \* paywallModal.style.display = 'flex'
    paywallMessage,       \* paywallMessage.textContent
    messageCount,         \* localStorage[STORAGE_KEYS.MESSAGE_COUNT] (trial-counter policy)
    trialStart,           \* localStorage[STORAGE_KEYS.TRIAL_START]
    cachedStatus,         \* localStorage[STORAGE_KEYS.SUBSCRIPTION_STATUS]
    subscriptionStatus,   \* SubscriptionService.subscriptionStatus (trial-counter policy)
    trialPc,              \* init() of the trial-counter policy: idle, or checking (awaiting)
    now,                  \* Date.now(), in milliseconds
    button,               \* the checkout buttons: label and whether a click reaches them
    checkout,             \* each button's click handler: idle or awaiting, and originalText
    location,             \* window.location.href: the page, or where it navigated to
    currentProvider,      \* AIService.currentProvider
    config,               \* the server's environment: the keys and secrets it holds
    adapter,              \* the provider adapter invocation serving each send
    lastOp                \* history variable: the operation that ran last

storeVars == <<conversationHistory, storedHistory, sends, nextContent,
               appendLog, rolledBack>>

gateVars == <<sessionId, accessData, initialized, storedSessionId, url, rechecks>>

pageVars == <<pagePc, chatInputDisabled, sendBtnDisabled, enrollModalShown,
              paywallShown, paywallMessage>>

trialVars == <<messageCount, trialStart, cachedStatus, subscriptionStatus, trialPc, now>>

checkoutVars == <<button, checkout, location>>

providerVars == <<currentProvider, config, adapter>>

vars == <<storeVars, gateVars, pageVars, trialVars, checkoutVars, providerVars, lastOp>>

----------------------------------------------------------------------------
(* Bounds of the model. *)

\* Number of AIService.sendMessage invocations that may be awaiting at once.
MaxSends == 2

\* Number of messages appended after construction.
MaxNewMessages == 3

\* Largest messagesRemaining the server reports.
MaxRemaining == 1

\* Number of verifyAccess() re-checks that may be awaiting at once.
MaxRechecks == 1

\* The clock is observed up to this many milliseconds after the model's epoch
\* and after the earliest end of a trial.
MaxLate == 1

\* The message counter is followed this far past the trial limit.
MaxOverLimit == 1

\* Longest message list handed to a provider adapter.
MaxMessages == 3

(* Program constants. *)

\* AI_CONFIG.chatSettings.maxHistoryMessages
maxHistoryMessages == 20

\* SUBSCRIPTION_CONFIG of the trial-counter policy
TRIAL_MESSAGE_LIMIT == 20

TRIAL_DAYS == 7

----------------------------------------------------------------------------
(* Values *)

\* A localStorage entry: not set (getItem gives null), or set to a text.
NoItem == [present |-> FALSE, text |-> <<>>]

Item(t) == [present |-> TRUE, text |-> t]

Slots == 1..MaxSends

Message(role, content) == [role |-> role, content |-> content]

\* The history a previous visit left behind: n messages, user and assistant
\* alternating, texts 1..n.
StoredMessages(n) ==
    [i \in 1..n |-> Message(IF i % 2 = 1 THEN "user" ELSE "assistant", i)]

\* JSON.stringify of the history array: each {role, content} object becomes
\* its text, here the pair of its two fields in the order they are written.
JSONstringify(h) == [i \in 1..Len(h) |-> <<"role", h[i].role, "content", h[i].content>>]

\* JSON.parse of such a text.
JSONparse(t) == [i \in 1..Len(t) |-> [role |-> t[i][2], content |-> t[i][4]]]

\* A slice that keeps the first n entries instead of the last n.
SliceFirst(h, n) == IF Len(h) <= n THEN h ELSE SubSeq(h, 1, n)

\* Array.prototype.slice(-n)
SliceLast(h, n) == IF Len(h) <= n THEN h ELSE SubSeq(h, Len(h) - n + 1, Len(h))

\* Array.prototype.pop: the array without its last element (unchanged when empty)
Pop(h) == IF Len(h) = 0 THEN h ELSE SubSeq(h, 1, Len(h) - 1)

IdleSend == [pc |-> "idle", userMsg |-> 0, histAtCall |-> <<>>]

\* lastOp: the operation, the send slot it belongs to, that send's user text and
\* the history when the send was called, and the history just before the step.
\* For a verification, data is the response; for a submit on the chat page,
\* blocked tells whether the gate was closed when the handler ran and requests
\* holds the endpoints the step called; ui is what the step added to the
\* page: a reply, an error text, an alert; error is the Error the step threw
\* to its caller.  Two fields run on from step to step: verified is the
\* response of the latest verification, and issued counts the provider
\* requests the chat page has started since it arrived.
NoOp == [op |-> "none", slot |-> 0, userMsg |-> 0, histAtCall |-> <<>>,
         histBefore |-> <<>>, data |-> [null |-> TRUE], blocked |-> FALSE,
         requests |-> {}, ui |-> "none", error |-> [null |-> TRUE],
         verified |-> [null |-> TRUE], issued |-> 0]

Op(name) == [NoOp EXCEPT !.op = name, !.verified = lastOp.verified,
                         !.issued = lastOp.issued]

\* null, as the value of sessionId and of a URL parameter that is absent.
NullId == "null"

\* null, as the value of accessData.
NullData == [null |-> TRUE]

\* location.search with neither parameter.
NoParams == [session_id |-> NullId, status |-> NullId]

----------------------------------------------------------------------------
(* AIService: the Conversation Store *)

\* loadChatHistory(): what the constructor reads from storage.
loadChatHistory(stored) == IF ~stored.present THEN <<>> ELSE JSONparse(stored.text)

\* A trim that lets the history grow one past the cap.
KeepLastN_OffByOne(h) ==
    IF Len(h) > maxHistoryMessages + 1 THEN SliceLast(h, maxHistoryMessages) ELSE h

\* The "keep only last N messages" step of saveChatHistory().
KeepLastN(h) ==
    IF Len(h) > maxHistoryMessages THEN SliceLast(h, maxHistoryMessages) ELSE h

\* A save that persists the array before the trim.
saveChatHistory_PersistUntrimmed(h) ==
    /\ conversationHistory' = KeepLastN(h)
    /\ storedHistory' = Item(JSONstringify(h))

\* saveChatHistory() run on the array h: trim, then persist.
saveChatHistory(h) ==
    /\ conversationHistory' = KeepLastN(h)
    /\ storedHistory' = Item(JSONstringify(KeepLastN(h)))

\* addToHistory(role, content): push, then save.
addToHistory(role, content) ==
    /\ saveChatHistory(Append(conversationHistory, Message(role, content)))
    /\ appendLog' = Append(appendLog, Message(role, content))

\* Stored texts are 1..n; the texts typed after construction are numbered from
\* FirstNewContent on.
FirstNewContent == maxHistoryMessages + 1

CanAppend == nextContent < FirstNewContent + MaxNewMessages

\* A caller invokes aiService.addToHistory(role, text) with a fresh text.
AddToHistory ==
    /\ CanAppend
    /\ \E role \in {"user", "assistant"} :
          addToHistory(role, nextContent)
    /\ nextContent' = nextContent + 1
    /\ lastOp' = Op("addToHistory")
    /\ UNCHANGED <<sends, rolledBack, gateVars, pageVars>>
    /\ UNCHANGED <<trialVars, checkoutVars, providerVars>>

\* A clear that leaves the persisted copy in place.
clearHistory_KeepsStored ==
    /\ conversationHistory' = <<>>
    /\ UNCHANGED storedHistory

\* clearHistory()
clearHistory ==
    /\ conversationHistory' = <<>>
    /\ storedHistory' = NoItem

ClearHistory ==
    /\ clearHistory
    /\ appendLog' = <<>>
    /\ rolledBack' = FALSE
    /\ lastOp' = Op("clearHistory")
    /\ UNCHANGED <<sends, nextContent, gateVars, pageVars>>
    /\ UNCHANGED <<trialVars, checkoutVars, providerVars>>

----------------------------------------------------------------------------
(* AIService.sendMessage: one invocation per slot.  The invocation appends *)
(* the user message, builds the request and suspends at `await fetch`;     *)
(* other handlers run until the response or the failure arrives.           *)

\* sendMessage(userMessage) up to the await: lines 66-90.
sendMessageCall(s) ==
    /\ sends[s].pc = "idle"
    /\ CanAppend
    /\ addToHistory("user", nextContent)
    /\ sends' = [sends EXCEPT ![s] = [pc |-> "fetch", userMsg |-> nextContent,
                                      histAtCall |-> conversationHistory]]
    /\ nextContent' = nextContent + 1
    /\ UNCHANGED rolledBack

\* The response is ok: lines 97-102, the assistant reply is appended.
sendMessageOk(s) ==
    /\ sends[s].pc = "fetch"
    /\ CanAppend
    /\ addToHistory("assistant", nextContent)
    /\ nextContent' = nextContent + 1
    /\ UNCHANGED rolledBack

\* fetch rejects (network error) or the status is not ok (lines 92-95), the
\* backend's answer to an unknown provider included (status 400): the catch
\* block, lines 103-108, pops and saves.
sendMessageCatch(s) ==
    /\ sends[s].pc = "fetch"
    /\ saveChatHistory(Pop(conversationHistory))
    /\ rolledBack' = TRUE
    /\ UNCHANGED <<nextContent, appendLog>>

\* What lastOp records of send s.
SendOp(name, s) ==
    [Op(name) EXCEPT !.slot = s, !.userMsg = sends[s].userMsg,
                     !.histAtCall = sends[s].histAtCall,
                     !.histBefore = conversationHistory]

\* A caller other than the chat page invokes aiService.sendMessage(text).
SendMessage(s) ==
    /\ sendMessageCall(s)
    /\ lastOp' = [Op("sendMessage") EXCEPT !.slot = s, !.requests = {"/api/chat"}]
    /\ UNCHANGED <<gateVars, pageVars>>
    /\ UNCHANGED <<trialVars, checkoutVars, providerVars>>

SendMessageOk(s) ==
    /\ sendMessageOk(s)
    /\ sends' = [sends EXCEPT ![s] = IdleSend]
    /\ lastOp' = SendOp("sendOk", s)
    /\ UNCHANGED <<gateVars, pageVars>>
    /\ UNCHANGED <<trialVars, checkoutVars, providerVars>>

SendMessageFail(s) ==
    /\ sendMessageCatch(s)
    /\ sends' = [sends EXCEPT ![s] = IdleSend]
    /\ lastOp' = SendOp("sendFailed", s)
    /\ UNCHANGED <<gateVars, pageVars>>
    /\ UNCHANGED <<trialVars, checkoutVars, providerVars>>

----------------------------------------------------------------------------
(* The Conversation Store on its own: any caller, any interleaving. *)

InitStore ==
    /\ \E n \in 0..maxHistoryMessages :
          /\ storedHistory = (IF n = 0 THEN NoItem ELSE Item(JSONstringify(StoredMessages(n))))
          /\ conversationHistory = loadChatHistory(storedHistory)
          /\ appendLog = StoredMessages(n)
    /\ nextContent = FirstNewContent
    /\ sends = [s \in Slots |-> IdleSend]
    /\ rolledBack = FALSE

\* The Stripe-gated services and the page, constructed and not yet started.
InitGateIdle ==
    /\ sessionId = NullId
    /\ accessData = NullData
    /\ initialized = FALSE
    /\ storedSessionId = NoItem
    /\ url = NoParams
    /\ rechecks = 0
    /\ pagePc = "start"
    /\ chatInputDisabled = FALSE
    /\ sendBtnDisabled = FALSE
    /\ enrollModalShown = FALSE
    /\ paywallShown = FALSE
    /\ paywallMessage = ""

\* The trial-counter policy's service, not in use.
InitTrialIdle ==
    /\ messageCount = NoItem
    /\ trialStart = NoItem
    /\ cachedStatus = NoItem
    /\ subscriptionStatus = NullData
    /\ trialPc = "idle"
    /\ now = 0

\* The buttons that start a checkout: the landing page's .subscribe-btn
\* (part_000) and the chat page's enrollBtn and subscribePaywallBtn (part_003).
Buttons == {"subscribe-btn", "enrollBtn", "subscribePaywallBtn"}

\* The label the chat page's handlers give a button back, lines 79 and 94; the
\* landing page's handler has none of its own.
ResetLabel(b) ==
    IF b = "enrollBtn" THEN "Start 7-Day Free Trial"
    ELSE IF b = "subscribePaywallBtn" THEN "Subscribe Now"
    ELSE "Subscribe"

\* The labels the landing page's markup may give a .subscribe-btn.
MarkupLabels == {"Subscribe", "Get Started"}

IdleCheckout == [pc |-> "idle", originalText |-> ""]

\* The address of the page the buttons are on.
PageUrl == "page"

\* The pages as served, no button clicked.
InitCheckoutIdle ==
    /\ button = [b \in Buttons |-> [label |-> ResetLabel(b), enabled |-> TRUE]]
    /\ checkout = [b \in Buttons |-> IdleCheckout]
    /\ location = PageUrl

\* An adapter invocation that has not started: no outbound request issued.
IdleAdapter == [pc |-> "idle", provider |-> "openai", requests |-> 0, status |-> 0,
                error |-> [null |-> TRUE]]

\* The backend-served AIService as constructed (ai-service.js line 11), the
\* server with both provider keys in its environment.
InitProviderIdle ==
    /\ currentProvider = "openai"
    /\ config = [server |-> {"openai", "anthropic"}]
    /\ adapter = [s \in Slots |-> IdleAdapter]

SpecStoreInit ==
    /\ InitStore /\ InitGateIdle /\ InitTrialIdle /\ InitCheckoutIdle
    /\ InitProviderIdle /\ lastOp = NoOp

NextStore ==
    \/ \E s \in Slots : SendMessage(s)
    \/ \E s \in Slots : SendMessageOk(s)
    \/ \E s \in Slots : SendMessageFail(s)
    \/ ClearHistory
    \/ AddToHistory

SpecStore == SpecStoreInit /\ [][NextStore]_vars

----------------------------------------------------------------------------
(* Claims about the Conversation Store, checked under SpecStore. *)

\* The failed send found the history, at its catch block, as its own call had
\* left it: nothing else touched the store while the request was in flight.
Undisturbed ==
    lastOp.histBefore =
        KeepLastN(Append(lastOp.histAtCall, Message("user", lastOp.userMsg)))

\* C1 (rollback property): after a sendMessage whose request failed, the
\* history is as long as it was when sendMessage was called, for every prior
\* length from 0 to maxHistoryMessages.  Stated for the sends that nothing
\* interleaved with, which the claim covers.
C1_RollbackKeepsLength ==
    (lastOp.op = "sendFailed" /\ Undisturbed)
        => Len(conversationHistory) = Len(lastOp.histAtCall)

\* h without the message whose text is c, the other entries in place.
WithoutText(h, c) == SelectSeq(h, LAMBDA m : m.content # c)

\* C2: a failed send removes exactly the user message that this same send
\* appended and leaves every other entry in place, whatever ran while the
\* request was in flight.
C2_RollbackRemovesOwnMessage ==
    lastOp.op = "sendFailed"
        => conversationHistory = WithoutText(lastOp.histBefore, lastOp.userMsg)

\* C4: after every operation of the store the history holds at most
\* maxHistoryMessages entries.
C4_LengthWithinCap == Len(conversationHistory) <= maxHistoryMessages

\* An append onto a full history has just dropped the oldest stored entry.
C4_Witness ==
    /\ lastOp.op \in {"addToHistory", "sendMessage", "sendOk"}
    /\ Len(conversationHistory) = maxHistoryMessages
    /\ conversationHistory[1].content > 1

\* The last Min(Len(log), cap) entries of log, in their order.
LastAppended(log) ==
    LET k == IF Len(log) < maxHistoryMessages THEN Len(log) ELSE maxHistoryMessages
    IN  [i \in 1..k |-> log[Len(log) - k + i]]

\* C5: after any sequence of n appends (and no rollback) the history is the
\* last min(n, cap) appended messages in append order: the cap drops the
\* oldest entries.
C5_MostRecentKept == ~rolledBack => conversationHistory = LastAppended(appendLog)

\* More messages were appended than the cap holds, the last one just now.
C5_Witness ==
    /\ ~rolledBack
    /\ lastOp.op = "addToHistory"
    /\ Len(appendLog) > maxHistoryMessages + 1

----------------------------------------------------------------------------
(* SubscriptionService, remote-verification policy (subscription-service.js) *)

\* The session ids of the model: one a previous visit stored, one the Stripe
\* redirect carries.
SessionIds == {"cs_stored", "cs_redirect"}

\* The subscription statuses of the AccessState snapshot.
Statuses == {"trialing", "active", "canceled", "past_due", "none"}

\* The bodies GET /api/verify-session can answer with: an AccessState-shaped
\* snapshot, its fields in any combination.
VerifySessionResponses ==
    [valid : BOOLEAN, canChat : BOOLEAN, isTrialing : BOOLEAN,
     messagesRemaining : 0..MaxRemaining, status : Statuses]

\* The bodies POST /api/track-message can answer with.
TrackMessageResponses ==
    [success : BOOLEAN, messagesRemaining : 0..MaxRemaining, limitReached : BOOLEAN]

\* An init() that takes the redirect's session id but does not persist it.
init_NotPersisted ==
    IF initialized
    THEN UNCHANGED <<sessionId, storedSessionId, url, initialized>>
    ELSE /\ IF url.session_id # NullId /\ url.status = "success"
            THEN /\ sessionId' = url.session_id
                 /\ url' = NoParams
                 /\ UNCHANGED storedSessionId
            ELSE /\ sessionId' = (IF storedSessionId.present
                                  THEN storedSessionId.text ELSE NullId)
                 /\ UNCHANGED <<storedSessionId, url>>
         /\ initialized' = TRUE

\* An init() that takes a session id from the redirect only, never from
\* local storage.
init_IgnoresStored ==
    IF initialized
    THEN UNCHANGED <<sessionId, storedSessionId, url, initialized>>
    ELSE /\ IF url.session_id # NullId /\ url.status = "success"
            THEN /\ storedSessionId' = Item(url.session_id)
                 /\ sessionId' = url.session_id
                 /\ url' = NoParams
            ELSE /\ sessionId' = NullId
                 /\ UNCHANGED <<storedSessionId, url>>
         /\ initialized' = TRUE

\* init(), lines 30-51, when not yet initialized.
init ==
    IF initialized
    THEN UNCHANGED <<sessionId, storedSessionId, url, initialized>>
    ELSE /\ IF url.session_id # NullId /\ url.status = "success"
            THEN /\ storedSessionId' = Item(url.session_id)
                 /\ sessionId' = url.session_id
                 /\ url' = NoParams
            ELSE /\ sessionId' = (IF storedSessionId.present
                                  THEN storedSessionId.text ELSE NullId)
                 /\ UNCHANGED <<storedSessionId, url>>
         /\ initialized' = TRUE

\* hasSession()
hasSession == sessionId # NullId

\* verifyAccess(), lines 72-76: the response arrived and parsed.
verifyAccessResolved(data) == accessData' = data

\* verifyAccess(), lines 77-83: fetch rejected (network failure) or the body
\* did not parse; the method returns {valid: false, error}.
verifyAccessRejected == UNCHANGED accessData

\* A gate that ignores canChat.
canSendMessage_ValidOnly ==
    IF accessData = NullData THEN FALSE ELSE accessData.valid

\* canSendMessage()
canSendMessage ==
    IF accessData = NullData THEN FALSE
    ELSE accessData.valid /\ accessData.canChat

\* getPaywallReason(); "null" is the null the last line returns.
getPaywallReason ==
    IF accessData = NullData THEN "not_enrolled"
    ELSE IF ~accessData.valid THEN "not_enrolled"
    ELSE IF accessData.messagesRemaining <= 0 /\ accessData.isTrialing
         THEN "message_limit"
    ELSE IF accessData.status \in {"canceled", "past_due"}
         THEN "subscription_ended"
    ELSE "null"

\* An isTrialUser() that never reports a trial.
isTrialUser_Never == FALSE

\* isTrialUser()
isTrialUser == IF accessData = NullData THEN FALSE ELSE accessData.isTrialing

\* recordMessage(), lines 118-127: the track-message response arrived; the
\* held snapshot is updated in place when the server reports success.
recordMessageResolved(data) ==
    IF accessData # NullData /\ data.success
    THEN accessData' = [accessData EXCEPT
                           !.messagesRemaining = data.messagesRemaining,
                           !.canChat = ~data.limitReached]
    ELSE UNCHANGED accessData

\* clearSession()
clearSession ==
    /\ storedSessionId' = NoItem
    /\ sessionId' = NullId
    /\ accessData' = NullData
    /\ initialized' = FALSE

----------------------------------------------------------------------------
(* The chat page (part_003) *)

\* A disableChat() that leaves the send button alone.
disableChat_InputOnly ==
    /\ chatInputDisabled' = TRUE
    /\ UNCHANGED sendBtnDisabled

\* disableChat()
disableChat ==
    /\ chatInputDisabled' = TRUE
    /\ sendBtnDisabled' = TRUE

\* enableChat(): enables both and hides the enrollment modal.
enableChat ==
    /\ chatInputDisabled' = FALSE
    /\ sendBtnDisabled' = FALSE
    /\ enrollModalShown' = FALSE

\* The branch of the DOMContentLoaded handler, lines 29-38, on accessCheck.valid.
AfterAccessCheck(valid) ==
    /\ IF ~valid
       THEN /\ enrollModalShown' = TRUE      \* showEnrollModal()
            /\ disableChat
       ELSE enableChat
    /\ pagePc' = "ready"
    /\ UNCHANGED <<paywallShown, paywallMessage>>

\* DOMContentLoaded, lines 23-27: init(), then checkAccess() up to its await.
PageLoad ==
    /\ pagePc = "start"
    /\ init
    /\ IF sessionId' = NullId
       THEN /\ AfterAccessCheck(FALSE)        \* checkAccess: no session
            /\ lastOp' = [Op("pageNoSession") EXCEPT
                             !.data = [valid |-> FALSE, reason |-> "not_enrolled"]]
       ELSE /\ pagePc' = "verifying"
            /\ lastOp' = [Op("pageVerify") EXCEPT !.requests = {"/api/verify-session"}]
            /\ UNCHANGED <<chatInputDisabled, sendBtnDisabled, enrollModalShown,
                           paywallShown, paywallMessage>>
    /\ UNCHANGED <<accessData, rechecks, storeVars>>
    /\ UNCHANGED <<trialVars, checkoutVars, providerVars>>

\* The page load's verify-session response arrives.
PageVerified ==
    /\ pagePc = "verifying"
    /\ \E data \in VerifySessionResponses :
          /\ verifyAccessResolved(data)
          /\ AfterAccessCheck(data.valid)
          /\ lastOp' = [Op("pageVerified") EXCEPT
                           !.data = data, !.verified = data, !.issued = 0]
    /\ UNCHANGED <<sessionId, initialized, storedSessionId, url, rechecks, storeVars>>
    /\ UNCHANGED <<trialVars, checkoutVars, providerVars>>

\* The page load's verify-session request fails.
PageVerifyFailed ==
    /\ pagePc = "verifying"
    /\ verifyAccessRejected
    /\ AfterAccessCheck(FALSE)
    /\ lastOp' = Op("pageVerifyFailed")
    /\ UNCHANGED <<sessionId, initialized, storedSessionId, url, rechecks, storeVars>>
    /\ UNCHANGED <<trialVars, checkoutVars, providerVars>>

----------------------------------------------------------------------------
(* Calls of the service after the page has loaded: the explicit re-check,  *)
(* logout and a renewed init().                                            *)

\* verifyAccess() is called again: with a session, the request goes out.
VerifyAccess ==
    /\ pagePc = "ready"
    /\ hasSession
    /\ rechecks < MaxRechecks
    /\ rechecks' = rechecks + 1
    /\ lastOp' = [Op("verifyAccess") EXCEPT !.requests = {"/api/verify-session"}]
    /\ UNCHANGED <<sessionId, accessData, initialized, storedSessionId, url,
                   pageVars, storeVars>>
    /\ UNCHANGED <<trialVars, checkoutVars, providerVars>>

\* verifyAccess() without a session returns {valid: false} at once, lines 65-70.
VerifyAccessNoSession ==
    /\ pagePc = "ready"
    /\ ~hasSession
    /\ lastOp' = Op("verifyNoSession")
    /\ UNCHANGED <<gateVars, pageVars, storeVars>>
    /\ UNCHANGED <<trialVars, checkoutVars, providerVars>>

VerifyAccessResolved ==
    /\ rechecks > 0
    /\ \E data \in VerifySessionResponses :
          /\ verifyAccessResolved(data)
          /\ lastOp' = [Op("verifyResolved") EXCEPT
                           !.data = data, !.verified = data, !.issued = 0]
    /\ rechecks' = rechecks - 1
    /\ UNCHANGED <<sessionId, initialized, storedSessionId, url, pageVars, storeVars>>
    /\ UNCHANGED <<trialVars, checkoutVars, providerVars>>

VerifyAccessRejected ==
    /\ rechecks > 0
    /\ verifyAccessRejected
    /\ rechecks' = rechecks - 1
    /\ lastOp' = Op("verifyRejected")
    /\ UNCHANGED <<sessionId, initialized, storedSessionId, url, pageVars, storeVars>>
    /\ UNCHANGED <<trialVars, checkoutVars, providerVars>>

ClearSession ==
    /\ pagePc = "ready"
    /\ clearSession
    /\ lastOp' = [Op("clearSession") EXCEPT
                     !.verified = [null |-> TRUE], !.issued = 0]
    /\ UNCHANGED <<url, rechecks, pageVars, storeVars>>
    /\ UNCHANGED <<trialVars, checkoutVars, providerVars>>

InitAgain ==
    /\ pagePc = "ready"
    /\ init
    /\ lastOp' = Op("init")
    /\ UNCHANGED <<accessData, rechecks, pageVars, storeVars>>
    /\ UNCHANGED <<trialVars, checkoutVars, providerVars>>

----------------------------------------------------------------------------
(* The Access Gate: a page load in any browser state, then the service's   *)
(* calls in any order.                                                     *)

\* The browser before the page's scripts run: what an earlier visit stored
\* and what the address bar holds.
InitBrowser ==
    /\ storedSessionId \in {NoItem, Item("cs_stored")}
    /\ url \in [session_id : {NullId, "cs_redirect"},
                status : {NullId, "success", "cancelled"}]
    /\ chatInputDisabled \in BOOLEAN
    /\ sendBtnDisabled \in BOOLEAN

InitGate ==
    /\ InitBrowser
    /\ sessionId = NullId
    /\ accessData = NullData
    /\ initialized = FALSE
    /\ rechecks = 0
    /\ pagePc = "start"
    /\ enrollModalShown = FALSE
    /\ paywallShown = FALSE
    /\ paywallMessage = ""

\* A fresh store: nothing persisted, nothing in flight.
InitStoreEmpty ==
    /\ storedHistory = NoItem
    /\ conversationHistory = loadChatHistory(storedHistory)
    /\ appendLog = <<>>
    /\ nextContent = FirstNewContent
    /\ sends = [s \in Slots |-> IdleSend]
    /\ rolledBack = FALSE

SpecGateInit ==
    /\ InitGate /\ InitStoreEmpty /\ InitTrialIdle /\ InitCheckoutIdle
    /\ InitProviderIdle /\ lastOp = NoOp

NextGate ==
    \/ PageLoad
    \/ PageVerified
    \/ PageVerifyFailed
    \/ VerifyAccess
    \/ VerifyAccessNoSession
    \/ VerifyAccessResolved
    \/ VerifyAccessRejected
    \/ ClearSession
    \/ InitAgain

SpecGate == SpecGateInit /\ [][NextGate]_vars

----------------------------------------------------------------------------
(* Claims about the remote-verification Access Gate, checked under SpecGate. *)

PaywallReasons == {"not_enrolled", "message_limit", "subscription_ended"}

\* C3 (fail closed): after a verifyAccess() that ended in a network failure
\* the gate is blocked with reason not_enrolled, also when an earlier
\* verification had succeeded.
C3_NetworkFailureBlocks ==
    lastOp.op \in {"pageVerifyFailed", "verifyRejected"}
        => (~canSendMessage /\ getPaywallReason = "not_enrolled")

\* C6: whenever the gate is blocked, getPaywallReason() is one of
\* not_enrolled, message_limit, subscription_ended.
C6_BlockedHasReason == ~canSendMessage => getPaywallReason \in PaywallReasons

\* C8: when the page load's verify-session answers valid = false, the gate
\* is blocked, the reason is not_enrolled, and input and send button are
\* disabled.
C8_InvalidSessionDisablesChat ==
    (lastOp.op = "pageVerified" /\ ~lastOp.data.valid)
        => /\ ~canSendMessage
           /\ getPaywallReason = "not_enrolled"
           /\ chatInputDisabled
           /\ sendBtnDisabled

\* The server answered valid = false (though canChat = true) on page load.
C8_Witness ==
    /\ lastOp.op = "pageVerified"
    /\ ~lastOp.data.valid
    /\ lastOp.data.canChat
    /\ pagePc = "ready"

\* C9: right after a verifyAccess() that received a response, the gate is
\* open exactly when the response has valid = true and canChat = true.
C9_AllowedIffValidAndCanChat ==
    lastOp.op \in {"pageVerified", "verifyResolved"}
        => (canSendMessage <=> (lastOp.data.valid /\ lastOp.data.canChat))

\* A re-check answered valid and canChat after the gate had been blocked ...
C9_Witness ==
    /\ lastOp.op = "verifyResolved"
    /\ lastOp.data.valid
    /\ lastOp.data.canChat
    /\ canSendMessage
    /\ chatInputDisabled

\* C17: the init() of a page load whose URL carries session_id and
\* status=success makes the persisted and the in-memory session id equal to
\* the URL's and strips the query string; on every other load the persisted
\* id is unchanged and sessionId is the stored value, or none.
C17_InitCapturesRedirect ==
    [][lastOp'.op \in {"pageNoSession", "pageVerify", "trialInit"}
          => IF url.session_id # NullId /\ url.status = "success"
             THEN /\ storedSessionId' = Item(url.session_id)
                  /\ sessionId' = url.session_id
                  /\ url' = NoParams
             ELSE /\ storedSessionId' = storedSessionId
                  /\ sessionId' = (IF storedSessionId.present
                                   THEN storedSessionId.text ELSE NullId)]_vars

\* The page was loaded from Stripe's redirect and has taken its session id.
C17_Witness ==
    /\ lastOp.op = "pageVerify"
    /\ sessionId = "cs_redirect"
    /\ storedSessionId = Item("cs_redirect")
    /\ url = NoParams

----------------------------------------------------------------------------
(* The chat page's handlers after load (part_003): submit, clear, paywall. *)

\* The text showPaywall(reason) puts into the paywall, lines 411-417.
PaywallText(reason) ==
    IF reason = "message_limit" THEN "You've used all 20 free trial messages."
    ELSE IF reason = "subscription_ended" THEN "Your subscription has ended."
    ELSE "Subscribe to continue chatting with MoM."

\* showPaywall(reason)
showPaywall(reason) ==
    /\ paywallMessage' = PaywallText(reason)
    /\ paywallShown' = TRUE
    /\ disableChat

\* A submit handler that does not consult the gate.
sendMessage_NoGate(s) ==
    /\ sendMessageCall(s)
    /\ UNCHANGED pageVars

\* sendMessage(), lines 179-199, for a non-empty message: the gate check, then
\* aiService.sendMessage(message) up to its await.
sendMessage(s) ==
    IF ~canSendMessage
    THEN /\ showPaywall(getPaywallReason)
         /\ UNCHANGED <<pagePc, enrollModalShown, storeVars>>
    ELSE /\ sendMessageCall(s)
         /\ UNCHANGED pageVars

\* The send button or the Enter key can be used.
CanSubmit == pagePc = "ready" /\ (~sendBtnDisabled \/ ~chatInputDisabled)

\* The user submits a non-empty message.
Submit(s) ==
    /\ CanSubmit
    /\ ~chatInputDisabled
    /\ sends[s].pc = "idle"
    /\ sendMessage(s)
    /\ lastOp' = [Op("submit") EXCEPT
                     !.slot = s,
                     !.blocked = ~canSendMessage,
                     !.histBefore = conversationHistory,
                     !.requests = IF sends'[s].pc = "fetch" THEN {"/api/chat"} ELSE {},
                     !.issued = IF sends'[s].pc = "fetch" THEN @ + 1 ELSE @]
    /\ UNCHANGED gateVars
    /\ UNCHANGED <<trialVars, checkoutVars, providerVars>>

\* The user submits an empty or whitespace-only input: line 181 returns.
SubmitEmpty ==
    /\ CanSubmit
    /\ lastOp' = Op("submitEmpty")
    /\ UNCHANGED <<storeVars, gateVars, pageVars>>
    /\ UNCHANGED <<trialVars, checkoutVars, providerVars>>

\* The provider request of a page send succeeds: lines 199-216 up to the
\* await of recordMessage(), which without a session returns at once.
ChatSendOk(s) ==
    /\ sendMessageOk(s)
    /\ IF isTrialUser /\ hasSession
       THEN /\ sends' = [sends EXCEPT ![s].pc = "track"]
            /\ lastOp' = [SendOp("chatSendOk", s) EXCEPT
                             !.requests = {"/api/track-message"},
                             !.ui = "reply"]
       ELSE /\ sends' = [sends EXCEPT ![s] = IdleSend]
            /\ lastOp' = [SendOp("chatSendOk", s) EXCEPT !.ui = "reply"]
    /\ UNCHANGED <<gateVars, pageVars>>
    /\ UNCHANGED <<trialVars, checkoutVars, providerVars>>

\* A failure handler that also locks the chat.
ChatSendFail_LocksChat(s) ==
    /\ sendMessageCatch(s)
    /\ sends' = [sends EXCEPT ![s] = IdleSend]
    /\ lastOp' = [SendOp("sendFailed", s) EXCEPT !.ui = "error"]
    /\ disableChat
    /\ UNCHANGED <<gateVars, pagePc, enrollModalShown, paywallShown, paywallMessage>>
    /\ UNCHANGED <<trialVars, checkoutVars, providerVars>>

\* The provider request of a page send fails: the catch of aiService, then
\* lines 217-223 show the error text.
ChatSendFail(s) ==
    /\ sendMessageCatch(s)
    /\ sends' = [sends EXCEPT ![s] = IdleSend]
    /\ lastOp' = [SendOp("sendFailed", s) EXCEPT !.ui = "error"]
    /\ UNCHANGED <<gateVars, pageVars>>
    /\ UNCHANGED <<trialVars, checkoutVars, providerVars>>

\* The track-message response arrives: lines 209-215.
ChatTracked(s) ==
    /\ sends[s].pc = "track"
    /\ \E data \in TrackMessageResponses :
          /\ recordMessageResolved(data)
          /\ IF data.limitReached
             THEN /\ showPaywall("message_limit")
                  /\ UNCHANGED <<pagePc, enrollModalShown>>
             ELSE UNCHANGED pageVars
    /\ sends' = [sends EXCEPT ![s] = IdleSend]
    /\ lastOp' = SendOp("tracked", s)
    /\ UNCHANGED <<sessionId, initialized, storedSessionId, url, rechecks,
                   conversationHistory, storedHistory, nextContent, appendLog,
                   rolledBack>>
    /\ UNCHANGED <<trialVars, checkoutVars, providerVars>>

\* The track-message request fails: recordMessage() returns {error}.
ChatTrackFailed(s) ==
    /\ sends[s].pc = "track"
    /\ sends' = [sends EXCEPT ![s] = IdleSend]
    /\ lastOp' = SendOp("trackFailed", s)
    /\ UNCHANGED <<gateVars, pageVars, conversationHistory, storedHistory,
                   nextContent, appendLog, rolledBack>>
    /\ UNCHANGED <<trialVars, checkoutVars, providerVars>>

\* The clear button, confirmed: lines 56-66.
ClearChat ==
    /\ pagePc = "ready"
    /\ clearHistory
    /\ appendLog' = <<>>
    /\ rolledBack' = FALSE
    /\ lastOp' = Op("clearHistory")
    /\ UNCHANGED <<sends, nextContent, gateVars, pageVars>>
    /\ UNCHANGED <<trialVars, checkoutVars, providerVars>>

\* A click outside the paywall: hidePaywall().
HidePaywall ==
    /\ pagePc = "ready"
    /\ paywallShown
    /\ paywallShown' = FALSE
    /\ lastOp' = Op("hidePaywall")
    /\ UNCHANGED <<pagePc, chatInputDisabled, sendBtnDisabled, enrollModalShown,
                   paywallMessage, gateVars, storeVars>>
    /\ UNCHANGED <<trialVars, checkoutVars, providerVars>>

NextChat ==
    \/ PageLoad
    \/ PageVerified
    \/ PageVerifyFailed
    \/ \E s \in Slots : Submit(s)
    \/ SubmitEmpty
    \/ \E s \in Slots : ChatSendOk(s)
    \/ \E s \in Slots : ChatSendFail(s)
    \/ \E s \in Slots : ChatTracked(s)
    \/ \E s \in Slots : ChatTrackFailed(s)
    \/ ClearChat
    \/ HidePaywall

\* The chat page opened by its plain address, by a visitor who enrolled on an
\* earlier visit or by one who never did.
InitChat ==
    /\ InitGate
    /\ url = NoParams
    /\ ~chatInputDisabled
    /\ ~sendBtnDisabled

SpecChatInit ==
    /\ InitChat /\ InitStoreEmpty /\ InitTrialIdle /\ InitCheckoutIdle
    /\ InitProviderIdle /\ lastOp = NoOp

SpecChat == SpecChatInit /\ [][NextChat]_vars

----------------------------------------------------------------------------
(* Claims about the chat page, checked under SpecChat. *)

\* C7: a submit while the gate is blocked shows the paywall with
\* getPaywallReason() and stops: nothing is appended to the history and no
\* provider request and no track-message request goes out.
C7_BlockedSubmitStops ==
    (lastOp.op = "submit" /\ lastOp.blocked)
        => /\ lastOp.requests = {}
           /\ conversationHistory = lastOp.histBefore
           /\ sends[lastOp.slot].pc = "idle"
           /\ paywallShown
           /\ paywallMessage = PaywallText(getPaywallReason)

\* The session is valid but may not chat: the page enabled the input, the
\* user submitted a message, and the paywall names the ended subscription.
C7_Witness ==
    /\ lastOp.op = "submit"
    /\ lastOp.blocked
    /\ accessData # NullData
    /\ accessData.valid
    /\ getPaywallReason = "subscription_ended"
    /\ chatInputDisabled

\* C14: accessData is never partially mutated: every step that changes it
\* is a verification that replaces it by the response it received, or
\* clearSession(); recordMessage() changes nothing of it.
C14_AccessDataReplacedWhole ==
    [][accessData' # accessData
          => \/ lastOp'.op = "clearSession"
             \/ /\ lastOp'.op \in {"pageVerified", "verifyResolved"}
                /\ accessData' = lastOp'.data]_vars

\* The sends of the page that have started and not yet finished.
InFlight == {s \in Slots : sends[s].pc # "idle"}

\* C15: at most one send request chain is in flight at any time: a second
\* submit starts no provider request and does not touch the Conversation
\* Store while an earlier send is awaiting its response.
C15_OneSendInFlight == Cardinality(InFlight) <= 1

\* The verified snapshot is that of a trial user.
OnTrial == accessData # NullData /\ accessData.isTrialing

\* C18: for a trial user a send whose provider request succeeded issues one
\* track-message call, in the step that appended the assistant reply, and
\* none after it; a send that failed issues no track-message call.
C18_TrackOncePerReply ==
    /\ (lastOp.op = "chatSendOk" /\ OnTrial)
          => /\ lastOp.requests = {"/api/track-message"}
             /\ sends[lastOp.slot].pc = "track"
             /\ conversationHistory # <<>>
             /\ conversationHistory[Len(conversationHistory)].role = "assistant"
    /\ lastOp.op \in {"tracked", "trackFailed", "sendFailed"}
          => /\ lastOp.requests = {}
             /\ sends[lastOp.slot].pc = "idle"

\* A trial user's message was answered and its tracking call is under way.
C18_Witness ==
    /\ lastOp.op = "chatSendOk"
    /\ OnTrial
    /\ sends[lastOp.slot].pc = "track"
    /\ Len(conversationHistory) >= 2
    /\ conversationHistory[Len(conversationHistory) - 1].content = lastOp.userMsg

\* C19: a failed send shows the error text in place of a reply and leaves
\* the page usable: the failure changes neither the input, the send button
\* nor the gate, the send is over, and a submit that follows it with the
\* gate open issues a new provider request.
C19_FailureLeavesChatUsable ==
    [][/\ lastOp'.op = "sendFailed"
          => /\ lastOp'.ui = "error"
             /\ chatInputDisabled' = chatInputDisabled
             /\ sendBtnDisabled' = sendBtnDisabled
             /\ accessData' = accessData
             /\ sends'[lastOp'.slot].pc = "idle"
       /\ (lastOp.op = "sendFailed" /\ lastOp'.op = "submit" /\ canSendMessage)
          => /\ lastOp'.requests = {"/api/chat"}
             /\ sends'[lastOp'.slot].pc = "fetch"]_vars

\* A send failed, and the submit right after it is on its way to the provider.
C19_Witness ==
    /\ lastOp.op = "submit"
    /\ ~lastOp.blocked
    /\ rolledBack
    /\ Len(conversationHistory) = 1
    /\ conversationHistory[1].role = "user"
    /\ InFlight = {lastOp.slot}
    /\ ~chatInputDisabled
    /\ ~sendBtnDisabled

----------------------------------------------------------------------------
(* SubscriptionService, local trial-counter policy (part_002, lines 1-181) *)

DayMs == 24 * 60 * 60 * 1000

\* TRIAL_DAYS in milliseconds, as lines 102 and 111 compute it.
TrialMs == TRIAL_DAYS * DayMs

\* The instants at which the model looks at the clock: the first ones, and
\* the ones around the end of a trial that started then.
Instants == (0..MaxLate) \cup {TrialMs - 1 + k : k \in 0..(MaxLate + 2)}

\* A bare status answer.
StatusBody(status, canChat) == [status |-> status, canChat |-> canChat]

\* The bodies GET /api/subscription-status answers with (part_004, lines
\* 157-198): no Stripe key, no subscription, a subscription in some Stripe
\* status, an error.
SubscriptionStatusResponses ==
    {StatusBody("no_stripe", TRUE), StatusBody("no_subscription", TRUE),
     StatusBody("error", FALSE)}
    \cup {StatusBody(st, st \in {"trialing", "active"}) :
            st \in {"trialing", "active", "past_due", "canceled"}}

\* getMessageCount(): the stored text parsed as a decimal, 0 when not set.
getMessageCount == IF messageCount.present THEN messageCount.text ELSE 0

\* incrementMessageCount()
incrementMessageCount == messageCount' = Item(getMessageCount + 1)

\* Math.max(0, x)
Max0(x) == IF x > 0 THEN x ELSE 0

\* A remaining-count that allows one message more than the limit.
getMessagesRemaining_OneMore == Max0(TRIAL_MESSAGE_LIMIT + 1 - getMessageCount)

\* getMessagesRemaining()
getMessagesRemaining == Max0(TRIAL_MESSAGE_LIMIT - getMessageCount)

\* isTrialExpired()
isTrialExpired ==
    IF ~trialStart.present THEN FALSE
    ELSE now > trialStart.text + TrialMs

\* Math.ceil(x / d) for d > 0
CeilDiv(x, d) == IF x % d = 0 THEN x \div d ELSE (x \div d) + 1

\* getTrialDaysRemaining()
getTrialDaysRemaining ==
    IF ~trialStart.present THEN TRIAL_DAYS
    ELSE Max0(CeilDiv(trialStart.text + TrialMs - now, DayMs))

\* hasActiveSubscription()
hasActiveSubscription ==
    IF subscriptionStatus = NullData THEN FALSE
    ELSE subscriptionStatus.status \in {"trialing", "active"}

\* A canSendMessage() that looks at the trial limits only.
Trial_canSendMessage_TrialOnly == (getMessagesRemaining > 0) /\ ~isTrialExpired

\* canSendMessage() of the trial-counter policy
Trial_canSendMessage ==
    IF hasActiveSubscription THEN TRUE
    ELSE (getMessagesRemaining > 0) /\ ~isTrialExpired

\* A getPaywallReason() that reports the limit only once it is exceeded.
Trial_getPaywallReason_Exceeded ==
    IF isTrialExpired THEN "trial_expired"
    ELSE IF getMessagesRemaining < 0 THEN "message_limit"
    ELSE "null"

\* getPaywallReason() of the trial-counter policy
Trial_getPaywallReason ==
    IF isTrialExpired THEN "trial_expired"
    ELSE IF getMessagesRemaining <= 0 THEN "message_limit"
    ELSE "null"

\* init() of the trial-counter policy, lines 24-49, up to its await.
TrialInit ==
    /\ trialPc = "idle"
    /\ ~initialized
    /\ IF url.session_id # NullId /\ url.status = "success"
       THEN /\ storedSessionId' = Item(url.session_id)
            /\ sessionId' = url.session_id
            /\ url' = NoParams
       ELSE /\ sessionId' = (IF storedSessionId.present
                             THEN storedSessionId.text ELSE NullId)
            /\ UNCHANGED <<storedSessionId, url>>
    /\ trialStart' = (IF ~trialStart.present THEN Item(now) ELSE trialStart)
    /\ IF sessionId' # NullId
       THEN /\ trialPc' = "checking"
            /\ UNCHANGED initialized
            /\ lastOp' = [Op("trialInit") EXCEPT !.requests = {"/api/subscription-status"}]
       ELSE /\ initialized' = TRUE
            /\ UNCHANGED trialPc
            /\ lastOp' = Op("trialInit")
    /\ UNCHANGED <<messageCount, cachedStatus, subscriptionStatus, now>>
    /\ UNCHANGED <<storeVars, pageVars, accessData, rechecks, checkoutVars, providerVars>>

\* checkSubscriptionStatus(), lines 64-71: the response arrived; init() ends.
TrialStatusResolved ==
    /\ trialPc = "checking"
    /\ \E data \in SubscriptionStatusResponses :
          /\ subscriptionStatus' = data
          /\ cachedStatus' = Item(data)
          /\ lastOp' = [Op("statusResolved") EXCEPT !.data = data]
    /\ trialPc' = "idle"
    /\ initialized' = TRUE
    /\ UNCHANGED <<sessionId, storedSessionId, url, messageCount, trialStart, now>>
    /\ UNCHANGED <<storeVars, pageVars, accessData, rechecks, checkoutVars, providerVars>>

\* checkSubscriptionStatus(), lines 72-80: the request failed; the cached
\* status, when there is one, is used.
TrialStatusRejected ==
    /\ trialPc = "checking"
    /\ subscriptionStatus' = (IF cachedStatus.present THEN cachedStatus.text
                              ELSE subscriptionStatus)
    /\ trialPc' = "idle"
    /\ initialized' = TRUE
    /\ lastOp' = Op("statusRejected")
    /\ UNCHANGED <<sessionId, storedSessionId, url, messageCount, trialStart,
                   cachedStatus, now>>
    /\ UNCHANGED <<storeVars, pageVars, accessData, rechecks, checkoutVars, providerVars>>

\* A caller records one sent message.
IncrementMessageCount ==
    /\ getMessageCount < TRIAL_MESSAGE_LIMIT + MaxOverLimit
    /\ incrementMessageCount
    /\ lastOp' = Op("incrementMessageCount")
    /\ UNCHANGED <<sessionId, storedSessionId, url, initialized, trialStart,
                   cachedStatus, subscriptionStatus, trialPc, now>>
    /\ UNCHANGED <<storeVars, pageVars, accessData, rechecks, checkoutVars, providerVars>>

\* Time passes.
Tick ==
    /\ \E t \in Instants : t > now /\ now' = t
    /\ lastOp' = Op("tick")
    /\ UNCHANGED <<sessionId, storedSessionId, url, initialized, messageCount,
                   trialStart, cachedStatus, subscriptionStatus, trialPc>>
    /\ UNCHANGED <<storeVars, pageVars, accessData, rechecks, checkoutVars, providerVars>>

\* The page is loaded anew: a new service object, the same localStorage.
TrialReload ==
    /\ trialPc = "idle"
    /\ initialized
    /\ sessionId' = NullId
    /\ subscriptionStatus' = NullData
    /\ initialized' = FALSE
    /\ lastOp' = Op("reload")
    /\ UNCHANGED <<storedSessionId, url, messageCount, trialStart, cachedStatus,
                   trialPc, now>>
    /\ UNCHANGED <<storeVars, pageVars, accessData, rechecks, checkoutVars, providerVars>>

\* A first visit: nothing stored; the address may be Stripe's redirect.
InitTrial ==
    /\ messageCount = NoItem
    /\ trialStart = NoItem
    /\ cachedStatus = NoItem
    /\ subscriptionStatus = NullData
    /\ trialPc = "idle"
    /\ now = 0
    /\ sessionId = NullId
    /\ initialized = FALSE
    /\ storedSessionId = NoItem
    /\ url \in {NoParams, [session_id |-> "cs_redirect", status |-> "success"]}
    /\ accessData = NullData
    /\ rechecks = 0
    /\ pagePc = "start"
    /\ chatInputDisabled = FALSE
    /\ sendBtnDisabled = FALSE
    /\ enrollModalShown = FALSE
    /\ paywallShown = FALSE
    /\ paywallMessage = ""

NextTrial ==
    \/ TrialInit
    \/ TrialStatusResolved
    \/ TrialStatusRejected
    \/ IncrementMessageCount
    \/ Tick
    \/ TrialReload

SpecTrialInit ==
    /\ InitTrial /\ InitStoreEmpty /\ InitCheckoutIdle
    /\ InitProviderIdle /\ lastOp = NoOp

SpecTrial == SpecTrialInit /\ [][NextTrial]_vars

----------------------------------------------------------------------------
(* Claims about the trial-counter Access Gate, checked under SpecTrial. *)

\* C10: without an active or trialing remote subscription, canSendMessage()
\* is false whenever now >= trialStart + TRIAL_DAYS, the instant
\* now = trialStart + TRIAL_DAYS included, whatever the message counter is.
C10_ExpiredTrialBlocks ==
    (~hasActiveSubscription /\ trialStart.present /\ now >= trialStart.text + TrialMs)
        => ~Trial_canSendMessage

\* C11: without an active or trialing remote subscription, canSendMessage()
\* is false whenever the message counter is at least TRIAL_MESSAGE_LIMIT,
\* whatever trial time remains.
C11_CounterAtLimitBlocks ==
    (~hasActiveSubscription /\ getMessageCount >= TRIAL_MESSAGE_LIMIT)
        => ~Trial_canSendMessage

\* The counter has just reached the limit on the first day of the trial.
C11_Witness ==
    /\ lastOp.op = "incrementMessageCount"
    /\ ~hasActiveSubscription
    /\ getMessageCount = TRIAL_MESSAGE_LIMIT
    /\ trialStart.present
    /\ getTrialDaysRemaining = TRIAL_DAYS

\* C12: whenever the held remote status is active or trialing,
\* canSendMessage() is true, for every message counter and trial start.
C12_ActiveSubscriptionAllows == hasActiveSubscription => Trial_canSendMessage

\* A subscriber whose counter is past the limit and whose trial has run out.
C12_Witness ==
    /\ hasActiveSubscription
    /\ getMessageCount > TRIAL_MESSAGE_LIMIT
    /\ isTrialExpired

\* C13: with no active subscription and an unexpired trial, canSendMessage()
\* is true when the counter is TRIAL_MESSAGE_LIMIT - 1, and right after the
\* incrementMessageCount() that takes it to the limit canSendMessage() is
\* false and getPaywallReason() is message_limit.
C13_LastFreeMessage ==
    (~hasActiveSubscription /\ ~isTrialExpired)
        => /\ (getMessageCount = TRIAL_MESSAGE_LIMIT - 1) => Trial_canSendMessage
           /\ (lastOp.op = "incrementMessageCount"
                   /\ getMessageCount = TRIAL_MESSAGE_LIMIT)
                 => (~Trial_canSendMessage /\ Trial_getPaywallReason = "message_limit")

\* The increment that used up the last free message, before the trial's end.
C13_Witness ==
    /\ lastOp.op = "incrementMessageCount"
    /\ getMessageCount = TRIAL_MESSAGE_LIMIT
    /\ ~hasActiveSubscription
    /\ trialStart.present
    /\ now > trialStart.text
    /\ now < trialStart.text + TrialMs

----------------------------------------------------------------------------
(* The Anthropic provider adapters: callAnthropic of the backend           *)
(* (server.js) and sendAnthropicRequest of the client-held-key AIService   *)
(* (part_001).                                                             *)

\* AI_CONFIG.systemPrompt
SystemPrompt == "S"

Roles == {"system", "user", "assistant"}

\* The texts of the messages: the system prompt and a user's text.
Contents == {SystemPrompt, "hi"}

\* The message lists a request to /api/chat can carry.
MessageLists ==
    UNION {[1..n -> [role : Roles, content : Contents]] : n \in 0..MaxMessages}

\* The histories the store holds: user and assistant entries only.
Histories ==
    UNION {[1..n -> [role : {"user", "assistant"}, content : {"hi", "yo"}]] :
             n \in 0..MaxMessages}

\* messages.find(m => m.role === 'system')?.content || ''
RECURSIVE FindSystemContent(_)
FindSystemContent(messages) ==
    IF messages = <<>> THEN ""
    ELSE IF Head(messages).role = "system" THEN Head(messages).content
    ELSE FindSystemContent(Tail(messages))

\* A conversion that hands the list on as it came.
FilterNonSystem_KeepAll(messages) == messages

\* messages.filter(m => m.role !== 'system')
RECURSIVE FilterNonSystem(_)
FilterNonSystem(messages) ==
    IF messages = <<>> THEN <<>>
    ELSE IF Head(messages).role # "system"
         THEN <<Head(messages)>> \o FilterNonSystem(Tail(messages))
         ELSE FilterNonSystem(Tail(messages))

\* callAnthropic(messages), lines 86-102: the body of the request.
callAnthropic(messages) ==
    [system |-> FindSystemContent(messages),
     messages |-> FilterNonSystem(messages)]

\* sendAnthropicRequest(), lines 200-218: the body built from the history.
sendAnthropicRequest(history) ==
    [system |-> SystemPrompt,
     messages |-> [i \in 1..Len(history) |->
                     [role |-> history[i].role, content |-> history[i].content]]]

\* The backend receives a chat request for the anthropic provider.
CallAnthropic ==
    /\ \E messages \in MessageLists :
          lastOp' = [Op("callAnthropic") EXCEPT
                        !.data = [input |-> messages,
                                  body |-> callAnthropic(messages)],
                        !.requests = {"https://api.anthropic.com/v1/messages"}]
    /\ UNCHANGED <<storeVars, gateVars, pageVars, trialVars, checkoutVars, providerVars>>

\* The client-held-key service sends its history to Anthropic.
SendAnthropicRequest ==
    /\ \E history \in Histories :
          lastOp' = [Op("sendAnthropicRequest") EXCEPT
                        !.data = [input |-> <<Message("system", SystemPrompt)>> \o history,
                                  body |-> sendAnthropicRequest(history)],
                        !.requests = {"https://api.anthropic.com/v1/messages"}]
    /\ UNCHANGED <<storeVars, gateVars, pageVars, trialVars, checkoutVars, providerVars>>

SpecAdapterInit ==
    /\ InitStoreEmpty /\ InitGateIdle /\ InitTrialIdle /\ InitCheckoutIdle
    /\ InitProviderIdle /\ lastOp = NoOp

NextAdapter ==
    \/ CallAnthropic
    \/ SendAnthropicRequest

SpecAdapter == SpecAdapterInit /\ [][NextAdapter]_vars

----------------------------------------------------------------------------
(* Claims about the provider adapters, checked under SpecAdapter. *)

\* The positions of the non-system entries of a list.
NonSystemAt(l) == {i \in 1..Len(l) : l[i].role # "system"}

\* out holds exactly the non-system entries of in, in their order: there is
\* an order-preserving matching of the positions of out with the positions
\* of the non-system entries of in.
KeepsNonSystemInOrder(in, out) ==
    \E f \in [1..Len(out) -> 1..Len(in)] :
        /\ \A i, j \in 1..Len(out) : i < j => f[i] < f[j]
        /\ \A i \in 1..Len(out) : out[i] = in[f[i]]
        /\ {f[i] : i \in 1..Len(out)} = NonSystemAt(in)

\* C16: the request to the Anthropic endpoint carries the system prompt in
\* its top-level system field, its messages array has no system-role entry
\* and keeps all non-system entries of the input in their order.
C16_AnthropicRequestShape ==
    lastOp.op \in {"callAnthropic", "sendAnthropicRequest"}
        => LET in == lastOp.data.input
               body == lastOp.data.body
           IN  /\ (in # <<>> /\ in[1].role = "system") => body.system = in[1].content
               /\ \A i \in 1..Len(body.messages) : body.messages[i].role # "system"
               /\ KeepsNonSystemInOrder(in, body.messages)

\* The backend got the system prompt followed by two different turns.
C16_Witness ==
    /\ lastOp.op = "callAnthropic"
    /\ Len(lastOp.data.input) = 3
    /\ lastOp.data.input[1] = Message("system", SystemPrompt)
    /\ lastOp.data.body.system = SystemPrompt
    /\ Len(lastOp.data.body.messages) = 2
    /\ lastOp.data.body.messages[1] # lastOp.data.body.messages[2]

----------------------------------------------------------------------------
(* Starting a checkout: the click handlers of the three buttons and        *)
(* SubscriptionService.startCheckout.                                      *)

\* A field the response body does not have.
NoField == "undefined"

StripeUrl == "https://checkout.stripe.com/c/pay"

\* The bodies POST /api/create-checkout-session answers with (part_004, lines
\* 127-154): the session with its url, a session without one, an error.
CheckoutResponses ==
    {[url |-> StripeUrl, error |-> NoField],
     [url |-> NoField, error |-> NoField],
     [url |-> NoField, error |-> "Stripe not configured"]}

\* The start of a click handler, to its await: part_000 lines 84-89 keep the
\* label and switch pointer events off, part_003 lines 73-75 and 88-90
\* disable the button.
clickHandler(b) ==
    /\ checkout' = [checkout EXCEPT ![b] = [pc |-> "fetch",
                                            originalText |-> button[b].label]]
    /\ button' = [button EXCEPT ![b] = [label |-> "Loading...", enabled |-> FALSE]]

\* A catch block that puts the label back and leaves the button switched off.
catchBlock_StaysOff(b) ==
    /\ button' = [button EXCEPT ![b].label =
                     IF b = "subscribe-btn" THEN checkout[b].originalText
                     ELSE ResetLabel(b)]
    /\ checkout' = [checkout EXCEPT ![b].pc = "idle"]
    /\ UNCHANGED location

\* The catch block of a click handler: part_000 lines 100-105 put
\* originalText back, part_003 lines 76-80 and 91-95 the button's fixed label.
catchBlock(b) ==
    /\ button' = [button EXCEPT ![b] =
                     [label |-> IF b = "subscribe-btn" THEN checkout[b].originalText
                                ELSE ResetLabel(b),
                      enabled |-> TRUE]]
    /\ checkout' = [checkout EXCEPT ![b].pc = "idle"]
    /\ UNCHANGED location

\* What the catch block shows: alert(), or showNotification(..., 'error').
ErrorShown(b) == IF b = "subscribe-btn" THEN "alert" ELSE "notification"

\* The user clicks a checkout button.
ClickCheckout(b) ==
    /\ location = PageUrl
    /\ button[b].enabled
    /\ checkout[b].pc = "idle"
    /\ clickHandler(b)
    /\ lastOp' = [Op("clickCheckout") EXCEPT
                     !.data = [button |-> b],
                     !.requests = {"/api/create-checkout-session"}]
    /\ UNCHANGED <<location, storeVars, gateVars, pageVars, trialVars, providerVars>>

\* The response arrives: with a url the page navigates to it (startCheckout
\* lines 160-161, part_000 lines 95-96), without one the handler throws and
\* its catch block runs.
CheckoutResolved(b) ==
    /\ location = PageUrl
    /\ checkout[b].pc = "fetch"
    /\ \E data \in CheckoutResponses :
          IF data.url # NoField
          THEN /\ location' = data.url
               /\ checkout' = [checkout EXCEPT ![b].pc = "idle"]
               /\ UNCHANGED button
               /\ lastOp' = [Op("checkoutResolved") EXCEPT
                                !.data = [button |-> b, url |-> data.url],
                                !.ui = "none"]
          ELSE /\ catchBlock(b)
               /\ lastOp' = [Op("checkoutResolved") EXCEPT
                                !.data = [button |-> b, url |-> data.url],
                                !.ui = ErrorShown(b)]
    /\ UNCHANGED <<storeVars, gateVars, pageVars, trialVars, providerVars>>

\* The request fails: the catch block runs.
CheckoutRejected(b) ==
    /\ location = PageUrl
    /\ checkout[b].pc = "fetch"
    /\ catchBlock(b)
    /\ lastOp' = [Op("checkoutRejected") EXCEPT
                     !.data = [button |-> b], !.ui = ErrorShown(b)]
    /\ UNCHANGED <<storeVars, gateVars, pageVars, trialVars, providerVars>>

\* The pages as served, the landing page's button with either label.
InitCheckout ==
    /\ \E l \in MarkupLabels :
          button = [b \in Buttons |->
                      [label |-> IF b = "subscribe-btn" THEN l ELSE ResetLabel(b),
                       enabled |-> TRUE]]
    /\ checkout = [b \in Buttons |-> IdleCheckout]
    /\ location = PageUrl

SpecCheckoutInit ==
    /\ InitCheckout /\ InitStoreEmpty /\ InitGateIdle /\ InitTrialIdle
    /\ InitProviderIdle /\ lastOp = NoOp

NextCheckout ==
    \/ \E b \in Buttons : ClickCheckout(b)
    \/ \E b \in Buttons : CheckoutResolved(b)
    \/ \E b \in Buttons : CheckoutRejected(b)

SpecCheckout == SpecCheckoutInit /\ [][NextCheckout]_vars

----------------------------------------------------------------------------
(* Claims about starting a checkout, checked under SpecCheckout. *)

----------------------------------------------------------------------------
(* The backend-served chat end to end: AIService.sendMessage                *)
(* (ai-service.js), the /api/chat handler and its provider calls            *)
(* (server.js), and the provider's answer.                                  *)

\* The providers the settings offer (AI_CONFIG.providers) and the ones the
\* backend dispatches on.
ProviderNames == {"openai", "anthropic", "deepseek"}

ServerProviders == {"openai", "anthropic"}

\* An Error's message: its text, and the HTTP status code written into it
\* (0 when the text carries none).
Msg(text, code) == [text |-> text, code |-> code]

\* The non-success answers of a provider: a status, and a body that carries
\* error.message, is JSON without it, or is not JSON.
UpstreamFailures == [status : {429}, body : {"message", "empty", "notJSON"}]

\* The API name in the server's messages.
ApiName(provider) == IF provider = "openai" THEN "OpenAI" ELSE "Anthropic"

\* callOpenAI lines 66-69, callAnthropic lines 105-108: the Error thrown for
\* a response that is not ok.
providerCallError(provider, f) ==
    IF f.body = "message" THEN Msg("upstream message", 0)
    ELSE IF f.body = "empty" THEN Msg(ApiName(provider) \o " API error", 0)
    ELSE Msg("Unexpected token in JSON", 0)

\* ai-service.js lines 92-95: the Error thrown for a response that is not ok,
\* whose body carries the message e (or none).
clientError(status, e) ==
    IF e # [null |-> TRUE] THEN e ELSE Msg("API error: ", status)

\* setProvider(provider) of ai-service.js, line 148: no check.  sendMessage
\* reads the provider once, when it builds the request, so a change while a
\* send is in flight shows nothing a change between sends does not: the
\* model takes it between sends.
SetProvider(p) ==
    /\ currentProvider # p
    /\ \A s \in Slots : sends[s].pc = "idle"
    /\ currentProvider' = p
    /\ lastOp' = Op("setProvider")
    /\ UNCHANGED <<config, adapter, storeVars, gateVars, pageVars, trialVars,
                   checkoutVars>>

\* aiService.sendMessage(text): the user message is appended and the POST to
\* /api/chat goes out with the selected provider.
BackendSend(s) ==
    /\ sendMessageCall(s)
    /\ adapter' = [adapter EXCEPT ![s] = [IdleAdapter EXCEPT
                                            !.pc = "posted",
                                            !.provider = currentProvider]]
    /\ lastOp' = [Op("sendMessage") EXCEPT !.slot = s, !.requests = {"/api/chat"}]
    /\ UNCHANGED <<currentProvider, config, gateVars, pageVars, trialVars,
                   checkoutVars>>

\* The /api/chat handler, server.js lines 19-42, with callOpenAI and
\* callAnthropic to their fetch: an unknown provider is answered 400, a
\* missing key 500, otherwise the one request to the provider goes out.
ServerChat(s) ==
    /\ adapter[s].pc = "posted"
    /\ LET p == adapter[s].provider
       IN  IF p \notin ServerProviders
           THEN /\ adapter' = [adapter EXCEPT ![s].pc = "responded",
                                              ![s].status = 400,
                                              ![s].error = Msg("Invalid provider", 0)]
                /\ lastOp' = [Op("serverChat") EXCEPT !.slot = s]
           ELSE IF p \notin config.server
           THEN /\ adapter' = [adapter EXCEPT
                                  ![s].pc = "responded",
                                  ![s].status = 500,
                                  ![s].error = Msg(ApiName(p) \o " API key not configured", 0)]
                /\ lastOp' = [Op("serverChat") EXCEPT !.slot = s]
           ELSE /\ adapter' = [adapter EXCEPT ![s].pc = "upstream",
                                              ![s].requests = @ + 1]
                /\ lastOp' = [Op("serverChat") EXCEPT
                                 !.slot = s, !.requests = {"https://api." \o p}]
    /\ UNCHANGED <<currentProvider, config, storeVars, gateVars, pageVars,
                   trialVars, checkoutVars>>

\* The provider answers ok: the handler answers 200 with the content.
UpstreamOk(s) ==
    /\ adapter[s].pc = "upstream"
    /\ adapter' = [adapter EXCEPT ![s].pc = "responded", ![s].status = 200]
    /\ lastOp' = [Op("upstreamOk") EXCEPT !.slot = s]
    /\ UNCHANGED <<currentProvider, config, storeVars, gateVars, pageVars,
                   trialVars, checkoutVars>>

\* A provider call that asks the provider once more after a non-success
\* answer, which the code does not do.
UpstreamNotOk_Retry(s) ==
    /\ adapter[s].pc = "upstream"
    /\ adapter[s].requests < 2
    /\ adapter' = [adapter EXCEPT ![s].requests = @ + 1]
    /\ lastOp' = [Op("upstreamNotOk") EXCEPT
                     !.slot = s, !.requests = {"https://api." \o adapter[s].provider}]
    /\ UNCHANGED <<currentProvider, config, storeVars, gateVars, pageVars,
                   trialVars, checkoutVars>>

\* The provider answers with a non-success status: the provider call throws
\* and the handler's catch answers 500 with the Error's message.
UpstreamNotOk(s) ==
    /\ adapter[s].pc = "upstream"
    /\ \E f \in UpstreamFailures :
          /\ adapter' = [adapter EXCEPT
                            ![s].pc = "responded",
                            ![s].status = 500,
                            ![s].error = providerCallError(adapter[s].provider, f)]
          /\ lastOp' = [Op("upstreamNotOk") EXCEPT
                           !.slot = s,
                           !.data = f,
                           !.error = providerCallError(adapter[s].provider, f)]
    /\ UNCHANGED <<currentProvider, config, storeVars, gateVars, pageVars,
                   trialVars, checkoutVars>>

\* The request to the provider fails: fetch rejects, the handler answers 500.
UpstreamRejected(s) ==
    /\ adapter[s].pc = "upstream"
    /\ adapter' = [adapter EXCEPT ![s].pc = "responded",
                                  ![s].status = 500,
                                  ![s].error = Msg("fetch failed", 0)]
    /\ lastOp' = [Op("upstreamRejected") EXCEPT
                     !.slot = s, !.error = Msg("fetch failed", 0)]
    /\ UNCHANGED <<currentProvider, config, storeVars, gateVars, pageVars,
                   trialVars, checkoutVars>>

\* The backend's answer reaches the client: ai-service.js lines 92-108.
BackendAnswered(s) ==
    /\ adapter[s].pc = "responded"
    /\ IF adapter[s].status = 200
       THEN /\ sendMessageOk(s)
            /\ lastOp' = [SendOp("sendOk", s) EXCEPT
                             !.data = [status |-> adapter[s].status,
                                       requests |-> adapter[s].requests,
                                       provider |-> adapter[s].provider]]
       ELSE /\ sendMessageCatch(s)
            /\ lastOp' = [SendOp("sendFailed", s) EXCEPT
                             !.data = [status |-> adapter[s].status,
                                       requests |-> adapter[s].requests,
                                       provider |-> adapter[s].provider],
                             !.error = clientError(adapter[s].status, adapter[s].error)]
    /\ sends' = [sends EXCEPT ![s] = IdleSend]
    /\ adapter' = [adapter EXCEPT ![s] = IdleAdapter]
    /\ UNCHANGED <<currentProvider, config, gateVars, pageVars, trialVars,
                   checkoutVars>>

\* The POST never reaches the backend: the client's fetch rejects.
BackendUnreachable(s) ==
    /\ adapter[s].pc = "posted"
    /\ sendMessageCatch(s)
    /\ lastOp' = [SendOp("sendFailed", s) EXCEPT
                     !.data = [status |-> 0, requests |-> adapter[s].requests,
                                       provider |-> adapter[s].provider],
                     !.error = Msg("Failed to fetch", 0)]
    /\ sends' = [sends EXCEPT ![s] = IdleSend]
    /\ adapter' = [adapter EXCEPT ![s] = IdleAdapter]
    /\ UNCHANGED <<currentProvider, config, gateVars, pageVars, trialVars,
                   checkoutVars>>

\* The server's environment holds a key for any subset of its providers.
InitBackend ==
    /\ currentProvider = "openai"
    /\ config \in [server : SUBSET ServerProviders]
    /\ adapter = [s \in Slots |-> IdleAdapter]

\* The visit starts with no stored history, or with one at the cap of
\* saveChatHistory.
InitBackendStore ==
    /\ InitStore
    /\ Len(conversationHistory) \in {0, maxHistoryMessages}

SpecBackendInit ==
    /\ InitBackendStore /\ InitGateIdle /\ InitTrialIdle /\ InitCheckoutIdle
    /\ InitBackend /\ lastOp = NoOp

NextBackend ==
    \/ \E p \in ProviderNames : SetProvider(p)
    \/ \E s \in Slots : BackendSend(s)
    \/ \E s \in Slots : ServerChat(s)
    \/ \E s \in Slots : UpstreamOk(s)
    \/ \E s \in Slots : UpstreamNotOk(s)
    \/ \E s \in Slots : UpstreamRejected(s)
    \/ \E s \in Slots : BackendAnswered(s)
    \/ \E s \in Slots : BackendUnreachable(s)

SpecBackend == SpecBackendInit /\ [][NextBackend]_vars

----------------------------------------------------------------------------
(* Further claims about the Conversation Store, checked under SpecStore. *)

\* C25: immediately after clearHistory(), conversationHistory is empty and
\* no persisted copy of the chat history exists.
C25_ClearEmptiesBoth ==
    lastOp.op = "clearHistory"
        => /\ conversationHistory = <<>>
           /\ ~storedHistory.present

\* clearHistory() has just run on a visit in which messages had been added.
C25_Witness ==
    /\ lastOp.op = "clearHistory"
    /\ nextContent > FirstNewContent
    /\ conversationHistory = <<>>

\* No send is suspended at its request.
NoSendInFlight == \A s \in Slots : sends[s].pc = "idle"

\* C30: between operations the persisted chat history decodes to the
\* in-memory conversationHistory, an absent key counting as the empty
\* sequence.  A send suspended at its request has returned control, so the
\* states in which one is in flight are covered too.
C30_StorageMirrorsMemory ==
    loadChatHistory(storedHistory) = conversationHistory

\* A failed send has rolled back from a full history with another send
\* still in flight.
C30_Witness ==
    /\ lastOp.op = "sendFailed"
    /\ ~NoSendInFlight
    /\ Len(conversationHistory) = maxHistoryMessages - 1
    /\ storedHistory.present

----------------------------------------------------------------------------
(* Further claims about the access gate, checked under SpecGate. *)

\* The browser holds a session id for init() to find: in the payment
\* redirect's URL, or in local storage.
SessionIdPresent ==
    \/ url.session_id # NullId /\ url.status = "success"
    \/ storedSessionId.present

\* C26: on page load a verify-session request is issued exactly when a
\* session id is present, in the redirect URL or in local storage; with none
\* no request is issued, the access check returns valid = false and the gate
\* is Blocked with reason "not_enrolled".
C26_VerifyIffSessionPresent ==
    [][pagePc = "start" /\ pagePc' # "start"
          => /\ lastOp'.requests = {"/api/verify-session"} <=> SessionIdPresent
             /\ SessionIdPresent => sessionId' # NullId /\ pagePc' = "verifying"
             /\ ~SessionIdPresent
                   => /\ lastOp'.requests = {}
                      /\ lastOp'.data.valid = FALSE
                      /\ ~canSendMessage'
                      /\ getPaywallReason' = "not_enrolled"]_vars

\* The page has loaded with no session id anywhere: no request went out and
\* the page is ready, blocked.
C26_Witness ==
    /\ lastOp.op = "pageNoSession"
    /\ lastOp.requests = {}
    /\ sessionId = NullId
    /\ pagePc = "ready"

\* The step just taken completed the page load.
PageLoadDone ==
    /\ pagePc = "ready"
    /\ lastOp.op \in {"pageNoSession", "pageVerified", "pageVerifyFailed"}

\* C28: after page load, the chat input and the send button are enabled only
\* if the access gate is Allowed, that is only if canSendMessage() is true.
C28_EnabledOnlyIfAllowed ==
    (PageLoadDone /\ (~chatInputDisabled \/ ~sendBtnDisabled)) => canSendMessage

\* clearSession() has run on the loaded page and init() has not run since:
\* only clearSession resets initialized.
ClearedSinceInit == pagePc = "ready" /\ ~initialized

\* C29: after clearSession() the gate stays blocked (hasSession() false,
\* canSendMessage() false, getPaywallReason() "not_enrolled") and the
\* persisted session id stays removed until a later init(), also when the
\* response of a verifyAccess() started before clearSession() arrives after
\* it.
C29_ClearedStaysBlocked ==
    ClearedSinceInit
        => /\ ~hasSession
           /\ ~canSendMessage
           /\ getPaywallReason = "not_enrolled"
           /\ ~storedSessionId.present

----------------------------------------------------------------------------
(* Further claims about the chat page, checked under SpecChat. *)

\* The latest verification reported a trial user, in a snapshot whose
\* canChat agrees with its messagesRemaining.
VerifiedTrial ==
    /\ lastOp.verified # NullData
    /\ lastOp.verified.valid
    /\ lastOp.verified.isTrialing
    /\ lastOp.verified.canChat <=> lastOp.verified.messagesRemaining > 0

\* C27: for a trial user, the number of provider requests the chat page
\* issues after a verification never exceeds the messagesRemaining that
\* verification reported, whatever the interleaving of submits and the
\* outcome of the track-message calls.
C27_RequestsWithinRemaining ==
    VerifiedTrial => lastOp.issued <= lastOp.verified.messagesRemaining

----------------------------------------------------------------------------
(* Claims about the backend-served chat, checked under SpecBackend. *)

\* The send that just failed named a provider the backend does not dispatch
\* on, or one the backend holds no key for.
FailedValidation ==
    /\ lastOp.op = "sendFailed"
    /\ lastOp.data.status # 0
    /\ \/ lastOp.data.provider \notin ServerProviders
       \/ lastOp.data.provider \notin config.server

\* C21: a send with an unrecognised provider identifier, or with no
\* credential for the selected provider, fails with an error, issues no
\* upstream request and leaves conversationHistory as it was before the
\* send.  Stated for the sends nothing interleaved with.
C21_RejectedSendLeavesHistory ==
    (FailedValidation /\ Undisturbed)
        => /\ lastOp.error # [null |-> TRUE]
           /\ lastOp.data.requests = 0
           /\ conversationHistory = lastOp.histAtCall

\* The backend holds a key for the provider of request s.
HasKey(s) == adapter[s].provider \in config.server

\* C22 as stated: every provider call the backend makes (callOpenAI,
\* callAnthropic) has issued exactly one request to the provider by the time
\* it returns or throws.
C22_ExactlyOneRequest ==
    \A s \in Slots :
        (adapter[s].pc = "responded" /\ adapter[s].provider \in ServerProviders)
            => adapter[s].requests = 1

\* C22, amended: a provider call never issues a second request; it has
\* issued exactly one by the time it ends when the backend holds the
\* provider's key and none when it does not; a call that did not succeed
\* ends with an error, which the client's sendMessage raises to its caller.
C22_OneRequestNoRetry ==
    /\ \A s \in Slots :
          /\ adapter[s].requests <= 1
          /\ (adapter[s].pc = "responded" /\ adapter[s].provider \in ServerProviders)
                => /\ adapter[s].requests = (IF HasKey(s) THEN 1 ELSE 0)
                   /\ adapter[s].status # 200 => adapter[s].error # [null |-> TRUE]
    /\ lastOp.op \in {"sendOk", "sendFailed"} => lastOp.data.requests <= 1
    /\ lastOp.op = "sendFailed" => lastOp.error # [null |-> TRUE]

\* A send has failed on the provider's non-success answer to the one request.
C22_Witness ==
    /\ lastOp.op = "sendFailed"
    /\ lastOp.data.requests = 1
    /\ lastOp.error = Msg("upstream message", 0)

\* C24: when the provider answers with a non-success status, the call fails
\* with the upstream error message if the body carries one, and otherwise
\* with a generic message that contains the HTTP status code; here for the
\* server's provider calls.
C24_FailureMessageCarriesStatus ==
    lastOp.op = "upstreamNotOk"
        => IF lastOp.data.body = "message"
           THEN lastOp.error = Msg("upstream message", 0)
           ELSE lastOp.error.code = lastOp.data.status

----------------------------------------------------------------------------
(* The Stripe webhook of the server: POST /api/webhook/stripe.              *)

\* The event types the handler logs, and one it does not know.
WebhookEventTypes ==
    {"checkout.session.completed", "customer.subscription.updated",
     "customer.subscription.deleted", "invoice.payment_succeeded",
     "invoice.payment_failed", "other"}

\* A request body: a JSON event of one of the types, raw bytes that are not
\* JSON, or a body express.raw did not take (another content type).
WebhookBodies == WebhookEventTypes \cup {"notJSON", "notRaw"}

\* The stripe-signature header: a signature of this body under the webhook
\* secret, one that does not match, one whose timestamp is too old, or none.
Signatures == {"valid", "invalid", "stale", "absent"}

\* stripe.webhooks.constructEvent(body, sig, secret): the event, or a throw.
constructEvent(body, sig) ==
    IF sig = "valid" /\ body \in WebhookEventTypes
    THEN [thrown |-> FALSE, type |-> body]
    ELSE [thrown |-> TRUE, type |-> "none"]

\* JSON.parse(req.body): the event, or a throw.
JSONparseEvent(body) ==
    IF body \in WebhookEventTypes
    THEN [thrown |-> FALSE, type |-> body]
    ELSE [thrown |-> TRUE, type |-> "none"]

\* The handler: the status and the body of its answer, and whether the
\* signature was verified on the way.
stripeWebhook(env, body, sig) ==
    IF ~env.stripe
    THEN [status |-> 400, reply |-> "Stripe not configured", verified |-> FALSE]
    ELSE LET event == IF env.webhookSecret THEN constructEvent(body, sig)
                      ELSE JSONparseEvent(body)
         IN  IF event.thrown
             THEN [status |-> 400, reply |-> "Webhook Error", verified |-> FALSE]
             ELSE [status |-> 200, reply |-> "received", verified |-> env.webhookSecret]

\* A request arrives at POST /api/webhook/stripe.
StripeWebhook ==
    /\ \E body \in WebhookBodies, sig \in Signatures :
          lastOp' = [Op("stripeWebhook") EXCEPT
                       !.data = [body |-> body, sig |-> sig,
                                 answer |-> stripeWebhook(config, body, sig)]]
    /\ UNCHANGED <<storeVars, gateVars, pageVars, trialVars, checkoutVars,
                   providerVars>>

\* The server's environment: STRIPE_SECRET_KEY and STRIPE_WEBHOOK_SECRET set
\* or not.
InitWebhook ==
    /\ currentProvider = "openai"
    /\ config \in [stripe : BOOLEAN, webhookSecret : BOOLEAN]
    /\ adapter = [s \in Slots |-> IdleAdapter]

SpecWebhookInit ==
    /\ InitStoreEmpty /\ InitGateIdle /\ InitTrialIdle /\ InitCheckoutIdle
    /\ InitWebhook /\ lastOp = NoOp

NextWebhook == StripeWebhook

SpecWebhook == SpecWebhookInit /\ [][NextWebhook]_vars

\* C23: the server answers POST /api/webhook/stripe with {received: true}
\* only for a request whose Stripe signature was verified.
C23_AcknowledgedOnlyIfVerified ==
    (lastOp.op = "stripeWebhook" /\ lastOp.data.answer.reply = "received")
        => /\ config.webhookSecret
           /\ lastOp.data.sig = "valid"
           /\ lastOp.data.answer.verified

====
